---- MODULE Spec2Model ----
(***************************************************************************)
(* Model of mathematics_dataset/modules/algebra.py (the polynomial-root,   *)
(* linear-system and sequence generators) and of the dataset driver        *)
(* mathematics_dataset/generate_to_file.py.                                *)
(*                                                                         *)
(* Python floats and sympy rationals are exact rationals <<n, d>> with     *)
(* d > 0 in lowest terms.  Random draws are nondeterministic choices.      *)
(* The composition library (Context, SampleArgs, Entity), the number       *)
(* sampler and the linear-system constructor are not part of the source    *)
(* tree; they are modelled from their documented contract.                 *)
(***************************************************************************)
EXTENDS Integers, Sequences, FiniteSets, TLC

VARIABLES
  stack,      \* call stack of generator frames, innermost last
  context,    \* the composition.Context of the current top-level call, or None
  popped,     \* every name context.pop() has returned in this context, in order
  returned,   \* what the last finished generator call returned, with its arguments
  driver,     \* locals of generate_to_file.main
  files       \* the file system under output_dir: path -> written examples

vars == <<stack, context, popped, returned, driver, files>>

None == "None"

-----------------------------------------------------------------------------
(* Bounds of the model *)

\* number of names in the Context's pool of unused variable names
PoolSize == 6
\* largest number of examples per module the driver is run with
MaxPerModule == 2

-----------------------------------------------------------------------------
(* Exact rational arithmetic *)

Abs(x) == IF x < 0 THEN -x ELSE x

Min(a, b) == IF a <= b THEN a ELSE b

RECURSIVE GCD(_, _)
GCD(a, b) == IF b = 0 THEN a ELSE GCD(b, a % b)

LCM(a, b) == (a * b) \div GCD(a, b)

Rat(n, d) ==
  LET g == GCD(Abs(n), Abs(d))
      s == IF d < 0 THEN -1 ELSE 1
  IN  <<(s * n) \div g, (s * d) \div g>>

RInt(n) == <<n, 1>>

RAdd(p, q) == Rat(p[1] * q[2] + q[1] * p[2], p[2] * q[2])
RNeg(p) == <<-p[1], p[2]>>
RSub(p, q) == RAdd(p, RNeg(q))
RMul(p, q) == Rat(p[1] * q[1], p[2] * q[2])
RDivInt(p, k) == Rat(p[1], p[2] * k)
RLe(p, q) == p[1] * q[2] <= q[1] * p[2]
RLt(p, q) == p[1] * q[2] < q[1] * p[2]
RMin(p, q) == IF RLe(p, q) THEN p ELSE q
RMax(p, q) == IF RLe(p, q) THEN q ELSE p

RECURSIVE RSum(_)
RSum(s) == IF s = <<>> THEN RInt(0) ELSE RAdd(Head(s), RSum(Tail(s)))

Reversed(s) == [i \in 1..Len(s) |-> s[Len(s) + 1 - i]]

\* sorted(list(S)) for a finite set of rationals
RECURSIVE Sorted(_)
Sorted(S) ==
  IF S = {} THEN <<>>
  ELSE LET m == CHOOSE x \in S : \A y \in S : RLe(x, y)
       IN  <<m>> \o Sorted(S \ {m})

Range(s) == {s[i] : i \in 1..Len(s)}

-----------------------------------------------------------------------------
(* The number sampler (mathematics_dataset.sample.number) *)

\* number.integer(entropy, signed=True)
NumberInteger(entropy) == {RInt(-3), RInt(2)}

\* number.non_integer_rational(entropy, signed=True)
NumberNonIntegerRational(entropy) == {<<1, 2>>}

\* number.integer_or_rational(entropy, signed=True); 0 is a possible draw
NumberIntegerOrRational(entropy) == {RInt(0), RInt(-2), <<1, 2>>}

\* np.random.dirichlet(np.ones(k)): weight vectors of length k that sum to 1
Dirichlet(k) ==
  IF k = 1 THEN {<<RInt(1)>>}
  ELSE {[i \in 1..k |-> Rat(1, k)]}
       \cup {[i \in 1..k |-> IF i = j THEN Rat(k + 2, 2 * k + 1) ELSE Rat(1, 2 * k + 1)]
               : j \in {1, k}}

-----------------------------------------------------------------------------
(* _sample_roots and _polynomial_coeffs_with_roots *)

MinRoots == 2
MaxRoots == 5
HighEntropy == 4

\* _sample_roots(entropy): every list of roots the function can return, with
\* the counts it was built from
_sample_roots(entropy) ==
  UNION { UNION {
    LET num_repeated == IF RLt(RInt(HighEntropy), entropy)
                        THEN Min(binomial, num_roots \div 2)
                        ELSE binomial
        num_distinct == num_roots - num_repeated
    IN  UNION {
          { [num_roots |-> num_roots, num_repeated |-> num_repeated,
             num_distinct |-> num_distinct,
             roots |-> distinct \o [j \in 1..num_repeated |-> distinct[pick[j]]]]
            : pick \in [1..num_repeated -> 1..num_distinct] }
          : distinct \in UNION {
              { d \in [1..num_distinct ->
                         UNION {NumberInteger(RMul(entropy, w[i])) \cup
                                NumberNonIntegerRational(RMul(entropy, w[i]))
                                  : i \in 1..num_distinct}] :
                  \A i \in 1..num_distinct :
                     d[i] \in NumberInteger(RMul(entropy, w[i])) \cup
                              NumberNonIntegerRational(RMul(entropy, w[i])) }
              : w \in Dirichlet(num_distinct) } }
    : binomial \in 0..(num_roots - 1) }
    : num_roots \in MinRoots..MaxRoots }

\* defect: the factor is taken as (x + root)
MulLinearPlus(p, root) ==
  [i \in 1..(Len(p) + 1) |->
     RAdd(IF i <= Len(p) THEN p[i] ELSE RInt(0),
          IF i >= 2 THEN RMul(root, p[i - 1]) ELSE RInt(0))]

\* product of p (coefficients, highest degree first) and (x - root)
MulLinear(p, root) ==
  [i \in 1..(Len(p) + 1) |->
     RSub(IF i <= Len(p) THEN p[i] ELSE RInt(0),
          IF i >= 2 THEN RMul(root, p[i - 1]) ELSE RInt(0))]

\* sympy.Poly(sympy.prod([variable - root for root in roots])).all_coeffs()
RECURSIVE AllCoeffs(_)
AllCoeffs(roots) ==
  IF roots = <<>> THEN <<RInt(1)>>
  ELSE MulLinear(AllCoeffs(SubSeq(roots, 1, Len(roots) - 1)), roots[Len(roots)])

\* sympy.lcm([sympy.denom(coeff) for coeff in coeffs])
RECURSIVE LcmOfDenoms(_)
LcmOfDenoms(coeffs) ==
  IF coeffs = <<>> THEN 1 ELSE LCM(Head(coeffs)[2], LcmOfDenoms(Tail(coeffs)))

\* the scale the `while True` loop of lines 150-156 leaves
SampleScale(scale_entropy) ==
  IF RLt(RInt(0), scale_entropy)
  THEN {s \in NumberIntegerOrRational(scale_entropy) : s # RInt(0)}
  ELSE {RInt(1)}

\* _polynomial_coeffs_with_roots(roots, scale_entropy): every result it can return
_polynomial_coeffs_with_roots(roots, scale_entropy) ==
  LET coeffs_reversed == AllCoeffs(roots)
      coeffs == Reversed(coeffs_reversed)
      lcm == LcmOfDenoms(coeffs)
  IN  { [scale |-> scale, lcm |-> lcm,
         coeffs |-> [i \in 1..Len(coeffs) |-> RMul(RMul(coeffs[i], scale), RInt(lcm))]]
        : scale \in SampleScale(scale_entropy) }

-----------------------------------------------------------------------------
(* The composition library (mathematics_dataset.util.composition) *)

\* composition.PreSampleArgs(min_modules, max_modules, min_entropy, max_entropy)
PreSampleArgs(min_modules, max_modules, min_entropy, max_entropy) ==
  [pre |-> TRUE, min_modules |-> min_modules, max_modules |-> max_modules,
   min_entropy |-> min_entropy, max_entropy |-> max_entropy]

\* composition.SampleArgs(num_modules, entropy)
SampleArgs(num_modules, entropy) ==
  [pre |-> FALSE, num_modules |-> num_modules, entropy |-> entropy]

\* sample_args.peel(): every <<entropy, child budget>> it can return.  A
\* PreSampleArgs first draws its module count and its entropy from its ranges.
\* Peeling splits off this module's share of the entropy and decrements the
\* module count of the budget left to the recursion.
Peel(sample_args) ==
  LET sampled == IF sample_args.pre
                 THEN {SampleArgs(m, e) :
                         m \in sample_args.min_modules..sample_args.max_modules,
                         e \in {sample_args.min_entropy, sample_args.max_entropy}}
                 ELSE {sample_args}
  IN  { LET entropy == RDivInt(s.entropy, s.num_modules)
        IN  <<entropy, SampleArgs(s.num_modules - 1, RSub(s.entropy, entropy))>>
        : s \in sampled }

\* composition.Context(): a fresh pool of unused names, no entities
NewContext == [live |-> TRUE, symbols |-> [i \in 1..PoolSize |-> i], entities |-> <<>>]

\* no Context object exists (context = None)
NoContext == [live |-> FALSE, symbols |-> <<>>, entities |-> <<>>]

\* nothing has been returned yet
NoReturn == [kind |-> "None"]

\* the optional `value` argument of a generator
NoValue == [given |-> FALSE, v |-> RInt(0)]
Given(v) == [given |-> TRUE, v |-> v]

\* values of locals that have not been assigned yet
NoRoots == [num_roots |-> 0, num_repeated |-> 0, num_distinct |-> 0, roots |-> <<>>]
NoCoeffs == [scale |-> RInt(0), lcm |-> 0, coeffs |-> <<>>]
NoEntity == [has_expression |-> FALSE, polynomial_variables |-> <<>>, handle |-> 0]
NoEquations == [variables |-> <<>>, solutions |-> <<>>, non_trivial_in |-> 0,
                form |-> "", constants |-> {}, handles |-> {}]
NoSequence == [degree |-> 0, sympy |-> <<>>]

\* a generator frame as pushed by a call
Frame(fn, degree, value, sample_args, context_arg) ==
  [fn |-> fn, degree |-> degree, value |-> value, sample_args |-> sample_args,
   context_arg |-> context_arg, is_question |-> FALSE, pc |-> "peel",
   entropy |-> RInt(0), peeled_entropy |-> RInt(0), peels |-> 0, pops |-> 0,
   scale_entropy |-> RInt(0), roots_entropy |-> RInt(0), roots |-> NoRoots,
   solutions |-> <<>>, coeffs |-> NoCoeffs, polynomial_entity |-> NoEntity,
   entropies |-> <<>>, variables |-> <<>>, solution_index |-> 0,
   equations |-> NoEquations, budget |-> 0, replacing |-> RInt(0),
   variable |-> 0, sequence |-> NoSequence, num_terms |-> 0,
   sequence_sample |-> <<>>]

Top == stack[Len(stack)]

SetTop(f) == [stack EXCEPT ![Len(stack)] = f]

\* the Context the running call works in (created on entry when none was passed)
Ctx == IF context.live THEN context ELSE NewContext

\* context.pop() fails loudly once the pool is exhausted: the whole top-level
\* generation is abandoned with an error
PoolError ==
  /\ stack' = <<>>
  /\ context' = NoContext
  /\ returned' = [kind |-> "Error", fn |-> stack[1].fn]
  /\ UNCHANGED <<popped, driver, files>>

-----------------------------------------------------------------------------
(* The module registry: _make_modules, train, test, test_extra *)

\* the (min, max) entropy ranges the registries are built with
EntropyRanges ==
  { <<RInt(0), RInt(2)>>,     \* an entropy_fn(_ENTROPY_TRAIN) of low difficulty
    <<RInt(8), RInt(8)>> }    \* _ENTROPY_INTERPOLATE

PureModules == 1
ComposedMinModules == 2
ComposedMaxModules == 4

sample_args_pure(entropy) == PreSampleArgs(PureModules, PureModules, entropy[1], entropy[2])

sample_args_composed(entropy) ==
  PreSampleArgs(ComposedMinModules, ComposedMaxModules, entropy[1], entropy[2])

-----------------------------------------------------------------------------
(* polynomial_roots *)

\* a caller invokes polynomial_roots(None, sample_args, context)
InvokePolynomialRoots ==
  /\ stack = <<>>
  /\ \E entropy \in EntropyRanges, context_arg \in {None, "Context"} :
     \E sample_args \in {sample_args_pure(entropy), sample_args_composed(entropy)} :
       /\ stack' = <<Frame("polynomial_roots", 0, NoValue, sample_args, context_arg)>>
       /\ context' = IF context_arg = None THEN NoContext ELSE NewContext
  /\ popped' = <<>>
  /\ returned' = NoReturn
  /\ UNCHANGED <<driver, files>>

\* lines 164-168: create the Context if none was passed, peel the budget
PolynomialRootsPeel ==
  /\ stack # <<>> /\ Top.fn = "polynomial_roots" /\ Top.pc = "peel"
  /\ \E peeled \in Peel(Top.sample_args) :
       stack' = SetTop([Top EXCEPT
         !.entropy = peeled[1],
         !.peeled_entropy = peeled[1],
         !.sample_args = peeled[2],
         !.scale_entropy = RMin(RDivInt(peeled[1], 2), RInt(1)),
         !.peels = @ + 1,
         !.pc = "roots"])
  /\ context' = Ctx
  /\ UNCHANGED <<popped, returned, driver, files>>

\* lines 170-172: the roots, the distinct solutions, the coefficients
PolynomialRootsCoeffs ==
  /\ stack # <<>> /\ Top.fn = "polynomial_roots" /\ Top.pc = "roots"
  /\ \E roots \in _sample_roots(RSub(Top.entropy, Top.scale_entropy)) :
     \E coeffs \in _polynomial_coeffs_with_roots(roots.roots, Top.scale_entropy) :
       stack' = SetTop([Top EXCEPT
         !.roots_entropy = RSub(Top.entropy, Top.scale_entropy),
         !.roots = roots,
         !.solutions = Sorted(Range(roots.roots)),
         !.coeffs = coeffs,
         !.pc = "sample"])
  /\ UNCHANGED <<context, popped, returned, driver, files>>

\* context.sample(sample_args, [composition.Polynomial(coeffs)]): with no
\* module budget left the polynomial is materialised inline as an expression in
\* a variable taken from the pool; otherwise it is composed by a registered
\* polynomial module and is reachable only through a handle taken from the pool
ContextSamplePolynomial(sample_args, name) ==
  IF sample_args.num_modules <= 1
  THEN [has_expression |-> TRUE, polynomial_variables |-> <<name>>, handle |-> 0]
  ELSE [has_expression |-> FALSE, polynomial_variables |-> <<>>, handle |-> name]

\* lines 173-174
PolynomialRootsSample ==
  /\ stack # <<>> /\ Top.fn = "polynomial_roots" /\ Top.pc = "sample"
  /\ IF context.symbols = <<>> THEN PoolError
     ELSE LET name == Head(context.symbols)
              entity == ContextSamplePolynomial(Top.sample_args, name)
          IN  /\ stack' = SetTop([Top EXCEPT !.polynomial_entity = entity, !.pc = "return"])
              /\ context' = [live |-> TRUE, symbols |-> Tail(context.symbols),
                             entities |-> IF entity.has_expression THEN context.entities
                                          ELSE Append(context.entities, entity)]
              /\ popped' = Append(popped, name)
              /\ UNCHANGED <<returned, driver, files>>

\* the value polynomial_roots returns (lines 202-205 and 218-220)
PolynomialRootsResult(frame, ask_roots, variable) ==
  [kind |-> "Problem", fn |-> frame.fn, degree |-> frame.degree,
   value |-> frame.value, context_arg |-> frame.context_arg,
   variable |-> variable,
   answer |-> IF ask_roots
              THEN (IF Len(frame.solutions) = 1 THEN frame.solutions[1]
                    ELSE frame.solutions)
              ELSE <<"factor", frame.coeffs.coeffs>>,
   pops |-> frame.pops + (IF frame.polynomial_entity.has_expression THEN 0 ELSE 1),
   peels |-> frame.peels]

\* lines 176-220: ask for the roots or for the factorisation, taking the
\* variable from the entity's expression or from the pool
PolynomialRootsReturn ==
  /\ stack # <<>> /\ Top.fn = "polynomial_roots" /\ Top.pc = "return"
  /\ \E ask_roots \in BOOLEAN :
       IF Top.polynomial_entity.has_expression
       THEN /\ returned' = PolynomialRootsResult(Top, ask_roots,
                                                 Top.polynomial_entity.polynomial_variables[1])
            /\ stack' = <<>>
            /\ UNCHANGED <<context, popped, driver, files>>
       ELSE IF context.symbols = <<>> THEN PoolError
       ELSE /\ returned' = PolynomialRootsResult(Top, ask_roots, Head(context.symbols))
            /\ stack' = <<>>
            /\ context' = [context EXCEPT !.symbols = Tail(@)]
            /\ popped' = Append(popped, Head(context.symbols))
            /\ UNCHANGED <<driver, files>>

-----------------------------------------------------------------------------
(* _solve_linear_system, solve_linear_1d, solve_linear_2d *)

\* the integer-valued modules registered with @composition.module(number.is_integer)
IntegerModules == {"solve_linear_1d", "solve_linear_2d"}

\* solve_linear_1d and solve_linear_2d bind the degree
DegreeOf(fn) == IF fn = "solve_linear_1d" THEN 1 ELSE 2

\* numeric constants a constructed linear system can contain
ConstantValues == {RInt(1), RInt(4)}

\* a caller invokes solve_linear_1d / solve_linear_2d (value, sample_args, context):
\* the registry passes value None and no context; a composing caller passes both
InvokeSolveLinear ==
  /\ stack = <<>>
  /\ \E fn \in IntegerModules, entropy \in EntropyRanges, context_arg \in {None, "Context"} :
     \E sample_args \in {sample_args_pure(entropy), sample_args_composed(entropy)},
        value \in {NoValue} \cup
                  (IF context_arg = None THEN {} ELSE {Given(RInt(4))}) :
       /\ stack' = <<Frame(fn, DegreeOf(fn), value, sample_args, context_arg)>>
       /\ context' = IF context_arg = None THEN NoContext ELSE NewContext
  /\ popped' = <<>>
  /\ returned' = NoReturn
  /\ UNCHANGED <<driver, files>>

\* defect: the peeled budget is not rebound to sample_args, so the recursion
\* is handed the budget this call received
SolveLinearSystemPeelNotRebound ==
  /\ stack # <<>> /\ Top.fn \in IntegerModules /\ Top.pc = "peel"
  /\ \E peeled \in Peel(Top.sample_args) :
       stack' = SetTop([Top EXCEPT
         !.is_question = (Top.context_arg = None),
         !.entropy = peeled[1],
         !.peeled_entropy = peeled[1],
         !.sample_args = SampleArgs(peeled[2].num_modules + 1,
                                    RAdd(peeled[2].entropy, peeled[1])),
         !.peels = @ + 1,
         !.pc = "solutions"])
  /\ context' = Ctx
  /\ UNCHANGED <<popped, returned, driver, files>>

\* lines 225-229: is_question, the Context, and the peeled budget
SolveLinearSystemPeel ==
  /\ stack # <<>> /\ Top.fn \in IntegerModules /\ Top.pc = "peel"
  /\ \E peeled \in Peel(Top.sample_args) :
       stack' = SetTop([Top EXCEPT
         !.is_question = (Top.context_arg = None),
         !.entropy = peeled[1],
         !.peeled_entropy = peeled[1],
         !.sample_args = peeled[2],
         !.peels = @ + 1,
         !.pc = "solutions"])
  /\ context' = Ctx
  /\ UNCHANGED <<popped, returned, driver, files>>

\* np.maximum(1, entropies)
ClampToOne(entropies) == [i \in 1..Len(entropies) |-> RMax(RInt(1), entropies[i])]

\* defect: the per-solution entropies are not deducted from the entropy left
\* for the linear system (line 240 missing)
SampleSolutionsNoDeduct(degree, value, entropy) ==
  LET given == IF value.given THEN <<value.v>> ELSE <<>>
      extra_solutions_needed == degree - Len(given)
  IN  IF extra_solutions_needed > 0
      THEN UNION {
             LET entropies == ClampToOne([i \in 1..extra_solutions_needed |->
                                            RMul(RDivInt(entropy, 4), w[i])])
             IN  { [entropies |-> entropies,
                    entropy |-> RMax(RInt(1), entropy),
                    solutions |-> given \o sampled]
                   : sampled \in [1..extra_solutions_needed -> NumberInteger(entropy)] }
             : w \in Dirichlet(extra_solutions_needed) }
      ELSE { [entropies |-> <<>>, entropy |-> RMax(RInt(1), entropy),
              solutions |-> given] }

\* lines 231-243: every (entropies, entropy, solutions) the sampling can leave
SampleSolutions(degree, value, entropy) ==
  LET given == IF value.given THEN <<value.v>> ELSE <<>>
      extra_solutions_needed == degree - Len(given)
  IN  IF extra_solutions_needed > 0
      THEN UNION {
             LET entropies == ClampToOne([i \in 1..extra_solutions_needed |->
                                            RMul(RDivInt(entropy, 4), w[i])])
             IN  { [entropies |-> entropies,
                    entropy |-> RMax(RInt(1), RSub(entropy, RSum(entropies))),
                    solutions |-> given \o sampled]
                   : sampled \in { f \in [1..extra_solutions_needed ->
                                            UNION {NumberInteger(entropies[i])
                                                     : i \in 1..extra_solutions_needed}] :
                                     \A i \in 1..extra_solutions_needed :
                                        f[i] \in NumberInteger(entropies[i]) } }
             : w \in Dirichlet(extra_solutions_needed) }
      ELSE { [entropies |-> <<>>, entropy |-> RMax(RInt(1), entropy),
              solutions |-> given] }

SolveLinearSystemSolutions ==
  /\ stack # <<>> /\ Top.fn \in IntegerModules /\ Top.pc = "solutions"
  /\ \E s \in SampleSolutions(Top.degree, Top.value, Top.entropy) :
       stack' = SetTop([Top EXCEPT
         !.entropies = s.entropies,
         !.entropy = s.entropy,
         !.solutions = s.solutions,
         !.pc = "variables"])
  /\ UNCHANGED <<context, popped, returned, driver, files>>

\* defect: one popped name is used for every variable
PopVariablesReused(symbols, degree) == [i \in 1..degree |-> symbols[1]]

\* line 245: the names [context.pop() for _ in range(degree)] takes from the pool
PopVariables(symbols, degree) == SubSeq(symbols, 1, degree)

\* line 247
SolutionIndex == 0

\* lines 245-247
SolveLinearSystemVariables ==
  /\ stack # <<>> /\ Top.fn \in IntegerModules /\ Top.pc = "variables"
  /\ IF Len(context.symbols) < Top.degree THEN PoolError
     ELSE /\ stack' = SetTop([Top EXCEPT
                !.variables = PopVariables(context.symbols, Top.degree),
                !.solution_index = SolutionIndex,
                !.pops = @ + Top.degree,
                !.pc = "construct"])
          /\ context' = [context EXCEPT !.symbols = SubSeq(@, Top.degree + 1, Len(@))]
          /\ popped' = popped \o SubSeq(context.symbols, 1, Top.degree)
          /\ UNCHANGED <<returned, driver, files>>

\* linear_system.linear_system(variables, solutions, entropy, non_trivial_in):
\* a random consistent system, with or without numeric constants; a system
\* without constants can come out in more than one form (x = -x, -x = x)
LinearSystem(variables, solutions, entropy, non_trivial_in) ==
  { [variables |-> variables, solutions |-> solutions,
     non_trivial_in |-> non_trivial_in, form |-> "a", constants |-> constants,
     handles |-> {}]
    : constants \in SUBSET ConstantValues }
  \cup
  { [variables |-> variables, solutions |-> solutions,
     non_trivial_in |-> non_trivial_in, form |-> "b", constants |-> {},
     handles |-> {}] }

\* ops.number_constants(equations)
NumberConstants(equations) == equations.constants

\* lines 252-258: one iteration of the `while True` loop; it is left when no
\* composition is required or the system has constants, and repeated otherwise
SolveLinearSystemConstruct ==
  /\ stack # <<>> /\ Top.fn \in IntegerModules /\ Top.pc = "construct"
  /\ \E equations \in LinearSystem(Top.variables, Top.solutions, Top.entropy,
                                   Top.solution_index) :
       LET constants == NumberConstants(equations)
       IN  stack' = SetTop([Top EXCEPT
             !.equations = equations,
             !.budget = Top.sample_args.num_modules,
             !.pc = IF Top.sample_args.num_modules <= 1 \/ constants # {}
                    THEN "compose" ELSE "construct"])
  /\ UNCHANGED <<context, popped, returned, driver, files>>

\* line 260, context.sample_by_replacing_constants(sample_args, equations): with
\* module budget left, a constant of the equations is replaced by the handle of
\* an entity composed by an integer-valued module, which is called with the
\* constant as its value, a share of the budget and this Context
SolveLinearSystemReplaceConstant ==
  /\ stack # <<>> /\ Top.fn \in IntegerModules /\ Top.pc = "compose"
  /\ Top.sample_args.num_modules > 1
  /\ Top.budget >= 1
  /\ \E constant \in NumberConstants(Top.equations), fn \in IntegerModules,
        num_modules \in 1..Top.budget :
       stack' = Append(
         SetTop([Top EXCEPT !.budget = @ - num_modules, !.replacing = constant]),
         Frame(fn, DegreeOf(fn), Given(constant),
               SampleArgs(num_modules,
                          RMul(Top.sample_args.entropy,
                               Rat(num_modules, Top.sample_args.num_modules))),
               "Context"))
  /\ UNCHANGED <<context, popped, returned, driver, files>>

\* line 260 returns: nothing to replace (no budget), or the replacements are done
SolveLinearSystemComposed ==
  /\ stack # <<>> /\ Top.fn \in IntegerModules /\ Top.pc = "compose"
  /\ Top.sample_args.num_modules <= 1 \/ Top.equations.handles # {}
  /\ stack' = SetTop([Top EXCEPT !.pc = "return"])
  /\ UNCHANGED <<context, popped, returned, driver, files>>

\* line 262
LinearVariable(variables, solution_index) == variables[solution_index + 1]

\* defect: the answer is read at the last solution instead of solution_index
LinearAnswerLast(solutions, solution_index) == solutions[Len(solutions)]

\* line 263
LinearAnswer(solutions, solution_index) == solutions[solution_index + 1]

\* defect: is_question is ignored and a Problem is returned in both modes
SolveLinearSystemResultProblem(frame) ==
  [kind |-> "Problem",
   fn |-> frame.fn, degree |-> frame.degree, value |-> frame.value,
   context_arg |-> frame.context_arg,
   variable |-> LinearVariable(frame.variables, frame.solution_index),
   answer |-> LinearAnswer(frame.solutions, frame.solution_index),
   pops |-> frame.pops, peels |-> frame.peels]

\* the value _solve_linear_system returns (lines 262-282), with the arguments
\* of the call
SolveLinearSystemResult(frame) ==
  [kind |-> IF frame.is_question THEN "Problem" ELSE "Entity",
   fn |-> frame.fn, degree |-> frame.degree, value |-> frame.value,
   context_arg |-> frame.context_arg,
   variable |-> LinearVariable(frame.variables, frame.solution_index),
   answer |-> LinearAnswer(frame.solutions, frame.solution_index),
   pops |-> frame.pops, peels |-> frame.peels]

\* lines 262-282: a top-level call returns the Problem to its caller; a call
\* made by the Context returns the Entity, whose handle replaces the constant
SolveLinearSystemReturn ==
  /\ stack # <<>> /\ Top.fn \in IntegerModules /\ Top.pc = "return"
  /\ returned' = SolveLinearSystemResult(Top)
  /\ IF Len(stack) = 1
     THEN /\ stack' = <<>>
          /\ UNCHANGED context
     ELSE LET parent == stack[Len(stack) - 1]
              entity == SolveLinearSystemResult(Top)
          IN  /\ stack' = [SubSeq(stack, 1, Len(stack) - 1) EXCEPT ![Len(stack) - 1] =
                    [parent EXCEPT
                       !.equations.constants = @ \ {parent.replacing},
                       !.equations.handles = @ \cup {entity.variable},
                       !.replacing = RInt(0)]]
              /\ context' = [context EXCEPT !.entities =
                    Append(@, [handle |-> entity.variable, value |-> entity.answer])]
  /\ UNCHANGED <<popped, driver, files>>

-----------------------------------------------------------------------------
(* _PolynomialSequence, sequence_next_term, sequence_nth_term *)

SequenceModules == {"sequence_next_term", "sequence_nth_term"}

MinDegree == 1
MaxDegree == 3
ExtraTerms == 3

\* coefficients a sampled sequence polynomial can have
CoefficientValues == {-1, 0, 2}

\* polynomials.sample_with_small_evaluation(variable, degree, max_abs_input,
\* entropy).sympy(): the coefficients, lowest degree first, of a polynomial of
\* the given degree
SampleWithSmallEvaluation(degree, max_abs_input, entropy) ==
  { c \in [1..(degree + 1) -> CoefficientValues] : c[degree + 1] # 0 }

\* _PolynomialSequence.__init__ (lines 298-312)
PolynomialSequence(entropy) ==
  UNION { { [degree |-> degree, sympy |-> sympy]
            : sympy \in SampleWithSmallEvaluation(degree, degree + 2, entropy) }
          : degree \in MinDegree..MaxDegree }

\* _PolynomialSequence.min_num_terms (line 323)
MinNumTerms(sequence) == sequence.degree + 2

\* self._sympy.subs(self._variable, n)
RECURSIVE Subs(_, _)
Subs(sympy, n) == IF sympy = <<>> THEN 0 ELSE Head(sympy) + n * Subs(Tail(sympy), n)

\* _PolynomialSequence.term (line 331)
Term(sequence, n) == Subs(sequence.sympy, n)

\* defect: the terms shown start at index 0
SequenceSampleFromZero(sequence, num_terms) ==
  [i \in 1..num_terms |-> Term(sequence, i - 1)]

\* lines 343 and 367: [sequence.term(n + 1) for n in range(num_terms)]
SequenceSample(sequence, num_terms) ==
  [i \in 1..num_terms |-> Term(sequence, (i - 1) + 1)]

\* line 351
NextTermAnswer(sequence, num_terms) == Term(sequence, num_terms + 1)

\* the registry calls sequence_next_term / sequence_nth_term (min_entropy, max_entropy)
InvokeSequence ==
  /\ stack = <<>>
  /\ \E fn \in SequenceModules, entropy \in EntropyRanges :
       stack' = <<[Frame(fn, 0, NoValue, entropy, None) EXCEPT !.pc = "begin"]>>
  /\ context' = NoContext
  /\ popped' = <<>>
  /\ returned' = NoReturn
  /\ UNCHANGED <<driver, files>>

\* lines 336-338 and 360-362: draw the entropy, make the Context, pop the variable
SequenceBegin ==
  /\ stack # <<>> /\ Top.fn \in SequenceModules /\ Top.pc = "begin"
  /\ \E entropy \in {Top.sample_args[1], Top.sample_args[2]} :
       /\ stack' = SetTop([Top EXCEPT
            !.entropy = entropy,
            !.variable = Head(NewContext.symbols),
            !.pops = @ + 1,
            !.pc = "sequence"])
       /\ context' = [NewContext EXCEPT !.symbols = Tail(@)]
       /\ popped' = <<Head(NewContext.symbols)>>
  /\ UNCHANGED <<returned, driver, files>>

\* lines 340-344 and 364-368: build the sequence and the terms shown
SequenceTerms ==
  /\ stack # <<>> /\ Top.fn \in SequenceModules /\ Top.pc = "sequence"
  /\ \E sequence \in PolynomialSequence(Top.entropy) :
     \E num_terms \in MinNumTerms(sequence)..(MinNumTerms(sequence) + ExtraTerms) :
       stack' = SetTop([Top EXCEPT
         !.sequence = sequence,
         !.num_terms = num_terms,
         !.sequence_sample = SequenceSample(sequence, num_terms),
         !.pc = "return"])
  /\ UNCHANGED <<context, popped, returned, driver, files>>

\* lines 346-355 and 370-378: the Problem returned
SequenceReturn ==
  /\ stack # <<>> /\ Top.fn \in SequenceModules /\ Top.pc = "return"
  /\ returned' =
       [kind |-> "Problem", fn |-> Top.fn, context_arg |-> Top.context_arg,
        variable |-> Top.variable,
        sequence |-> Top.sequence,
        sequence_sample |-> Top.sequence_sample,
        answer |-> IF Top.fn = "sequence_next_term"
                   THEN <<NextTermAnswer(Top.sequence, Top.num_terms)>>
                   ELSE Top.sequence.sympy,
        pops |-> Top.pops, peels |-> Top.peels]
  /\ stack' = <<>>
  /\ UNCHANGED <<context, popped, driver, files>>

-----------------------------------------------------------------------------
(* generate_to_file.main *)

\* number of regimes in generate.filtered_modules
NumRegimes == 2
\* number of modules of each regime
NumModules == 2

SaveFormats == {"json", "jsonl", "txt"}

NoFile == [exists |-> FALSE, content |-> <<>>]

\* the example generate.sample_from_module(module) yields, by its origin
Example(regime, module) == [regime |-> regime, module |-> module]

DriverIdle == [pc |-> "idle", save_format |-> "json", counts |-> <<>>, regime |-> 0,
               module |-> 0, k |-> 0, dataset_list |-> <<>>]

\* lines 55-64: main(save_format) starts, with the per-regime counts of generate.counts
MainStart ==
  /\ driver.pc = "idle"
  /\ \E save_format \in SaveFormats, counts \in [1..NumRegimes -> 1..MaxPerModule] :
       driver' = [pc |-> "module", save_format |-> save_format, counts |-> counts,
                  regime |-> 1, module |-> 1, k |-> 0, dataset_list |-> <<>>]
  /\ files' = [path \in (1..NumRegimes) \X (1..NumModules) |-> NoFile]
  /\ UNCHANGED <<stack, context, popped, returned>>

\* lines 71-74, 85-87, 98-100: the path of the module's file; the jsonl and txt
\* branches open (and truncate) it before sampling
MainOpenModule ==
  /\ driver.pc = "module"
  /\ driver' = [driver EXCEPT !.pc = "sampling", !.k = 0]
  /\ files' = IF driver.save_format = "json" THEN files
              ELSE [files EXCEPT ![<<driver.regime, driver.module>>] =
                      [exists |-> TRUE, content |-> <<>>]]
  /\ UNCHANGED <<stack, context, popped, returned>>

\* lines 75-82, 88-97, 101-104: one iteration of the sampling loop.  The json
\* branch appends to dataset_list; the txt branch writes to the open file; the
\* jsonl branch uses the undefined name dataset_dict and raises NameError
MainSample ==
  /\ driver.pc = "sampling"
  /\ driver.k < driver.counts[driver.regime]
  /\ LET example == Example(driver.regime, driver.module)
     IN  CASE driver.save_format = "json" ->
                /\ driver' = [driver EXCEPT !.k = @ + 1,
                                            !.dataset_list = Append(@, example)]
                /\ UNCHANGED files
           [] driver.save_format = "txt" ->
                /\ driver' = [driver EXCEPT !.k = @ + 1]
                /\ files' = [files EXCEPT ![<<driver.regime, driver.module>>].content =
                               Append(@, example)]
           [] OTHER ->
                /\ driver' = [driver EXCEPT !.pc = "error"]
                /\ UNCHANGED files
  /\ UNCHANGED <<stack, context, popped, returned>>

\* lines 83-84 and 107: after the loop the json branch dumps dataset_list to the
\* module's file; then the next module, the next regime, or the end
MainFinishModule ==
  /\ driver.pc = "sampling"
  /\ driver.k = driver.counts[driver.regime]
  /\ files' = IF driver.save_format = "json"
              THEN [files EXCEPT ![<<driver.regime, driver.module>>] =
                      [exists |-> TRUE, content |-> driver.dataset_list]]
              ELSE files
  /\ driver' = IF driver.module < NumModules
               THEN [driver EXCEPT !.pc = "module", !.module = @ + 1]
               ELSE IF driver.regime < NumRegimes
               THEN [driver EXCEPT !.pc = "module", !.regime = @ + 1, !.module = 1]
               ELSE [driver EXCEPT !.pc = "done"]
  /\ UNCHANGED <<stack, context, popped, returned>>

\* the process has ended: main may be run again
MainExit ==
  /\ driver.pc \in {"done", "error"}
  /\ driver' = DriverIdle
  /\ files' = <<>>
  /\ UNCHANGED <<stack, context, popped, returned>>

-----------------------------------------------------------------------------
Init ==
  /\ stack = <<>>
  /\ context = NoContext
  /\ popped = <<>>
  /\ returned = NoReturn
  /\ driver = DriverIdle
  /\ files = <<>>

Next ==
  \/ InvokePolynomialRoots
  \/ PolynomialRootsPeel
  \/ PolynomialRootsCoeffs
  \/ PolynomialRootsSample
  \/ PolynomialRootsReturn
  \/ InvokeSolveLinear
  \/ SolveLinearSystemPeel
  \/ SolveLinearSystemSolutions
  \/ SolveLinearSystemVariables
  \/ SolveLinearSystemConstruct
  \/ SolveLinearSystemReplaceConstant
  \/ SolveLinearSystemComposed
  \/ SolveLinearSystemReturn
  \/ InvokeSequence
  \/ SequenceBegin
  \/ SequenceTerms
  \/ SequenceReturn

\* the generators of algebra.py, called by the registry or by a composing caller
Spec == Init /\ [][Next]_vars

\* the steps of a running _solve_linear_system call
SolveLinearRun ==
  \/ SolveLinearSystemPeel
  \/ SolveLinearSystemSolutions
  \/ SolveLinearSystemVariables
  \/ SolveLinearSystemConstruct
  \/ SolveLinearSystemReplaceConstant
  \/ SolveLinearSystemComposed
  \/ SolveLinearSystemReturn

NextLinear ==
  \/ InvokeSolveLinear
  \/ SolveLinearRun

\* the linear-system generators alone; the interpreter keeps executing a
\* running call, so an iteration of the loop that can be taken is eventually
\* taken (inside the loop no other step of the call is enabled)
LiveSpec == Init /\ [][NextLinear]_vars /\ WF_vars(SolveLinearSystemConstruct)

NextMain ==
  \/ MainStart
  \/ MainOpenModule
  \/ MainSample
  \/ MainFinishModule
  \/ MainExit

\* the dataset driver
SpecMain == Init /\ [][NextMain]_vars

-----------------------------------------------------------------------------
(* Properties *)

\* the frames on the call stack satisfying P are quantified by position
FrameAt(i) == stack[i]

IsReturn == returned.kind \in {"Problem", "Entity"}

\* C1 as stated: polynomial_roots, solve_linear_1d and solve_linear_2d each
\* return a Problem when called with context=None and an Entity when called
\* with a context
C1_DualModeAll ==
  (IsReturn /\ returned.fn \in IntegerModules \cup {"polynomial_roots"}) =>
     /\ returned.context_arg = None => returned.kind = "Problem"
     /\ returned.context_arg # None => returned.kind = "Entity"

\* C1 (amended): solve_linear_1d and solve_linear_2d return a Problem when
\* called with context=None and an Entity when called with a context;
\* polynomial_roots returns a Problem in both cases
C1_DualModeLinear ==
  IsReturn =>
     /\ returned.fn \in IntegerModules =>
          /\ returned.context_arg = None => returned.kind = "Problem"
          /\ returned.context_arg # None => returned.kind = "Entity"
     /\ returned.fn = "polynomial_roots" => returned.kind = "Problem"

\* a linear generator called by the Context has returned an Entity
C1_Witness ==
  /\ IsReturn
  /\ returned.fn = "solve_linear_2d"
  /\ returned.context_arg # None
  /\ returned.kind = "Entity"
  /\ Len(stack) >= 1

NoDuplicates(s) == \A i, j \in 1..Len(s) : i # j => s[i] # s[j]

HasVariables(f) == f.fn \in IntegerModules /\ f.pc \in {"construct", "compose", "return"}

\* C2: within one Context every variable name of a generator comes from a
\* context pop and no name is handed out twice: _solve_linear_system pops
\* exactly `degree` names, polynomial_roots at most one, the sequence
\* generators exactly one, and the names in use are pairwise distinct
C2_NamesFromPool ==
  /\ NoDuplicates(popped)
  /\ \A i \in 1..Len(stack) :
       LET f == stack[i]
       IN  /\ HasVariables(f) =>
                /\ Len(f.variables) = f.degree
                /\ f.pops = f.degree
                /\ NoDuplicates(f.variables)
                /\ Range(f.variables) \subseteq Range(popped)
                /\ \A j \in 1..Len(stack) :
                     (j # i /\ HasVariables(stack[j])) =>
                        Range(f.variables) \cap Range(stack[j].variables) = {}
                /\ \A k \in 1..Len(context.entities) :
                     context.entities[k].handle \notin Range(f.variables)
           /\ (f.fn \in IntegerModules /\ ~HasVariables(f)) => f.pops = 0
           /\ f.fn = "polynomial_roots" => f.pops = 0
           /\ (f.fn \in SequenceModules /\ f.pc # "begin") =>
                f.pops = 1 /\ popped = <<f.variable>>
  /\ \A k \in 1..Len(context.entities) :
       /\ context.entities[k].handle \in Range(popped)
       /\ \A l \in 1..Len(context.entities) :
            k # l => context.entities[k].handle # context.entities[l].handle
  /\ IsReturn =>
       /\ returned.variable \in Range(popped)
       /\ returned.fn \in IntegerModules => returned.pops = returned.degree
       /\ returned.fn = "polynomial_roots" => returned.pops <= 1
       /\ returned.fn \in SequenceModules => returned.pops = 1

\* three nested calls share one Context and hold their own variables
C2_Witness ==
  /\ Len(stack) = 3
  /\ \A i \in 1..3 : HasVariables(stack[i])
  /\ stack[1].degree = 2 /\ stack[2].degree = 2
  /\ Len(popped) >= 5

Sampled(f) ==
  \/ f.fn \in IntegerModules /\ f.pc \in {"variables", "construct", "compose", "return"}
  \/ f.fn = "polynomial_roots" /\ f.pc \in {"sample", "return"}

\* the entropy a call has spent on its own sampling
Spent(f) ==
  IF f.fn = "polynomial_roots"
  THEN RAdd(f.scale_entropy, f.roots_entropy)
  ELSE RAdd(RSum(f.entropies), f.entropy)

\* C4 as stated: for every peeled entropy e >= 0 the entropy a generator
\* spends on its own sampling never exceeds e
C4_SpendWithinPeeled ==
  \A i \in 1..Len(stack) :
     Sampled(FrameAt(i)) => RLe(Spent(FrameAt(i)), FrameAt(i).peeled_entropy)

\* C4 (amended): polynomial_roots spends no more than the peeled entropy e.
\* _solve_linear_system clamps each per-solution entropy and the constructor's
\* entropy to at least 1, so it spends max(e, 1 + the sum of the per-solution
\* entropies), the sum being at most e/4 + the number of sampled solutions:
\* within e whenever e >= 4, and possibly above e for smaller e
C4_SpendClamped ==
  \A i \in 1..Len(stack) : LET f == FrameAt(i) IN Sampled(f) =>
     IF f.fn = "polynomial_roots"
     THEN RLe(Spent(f), f.peeled_entropy)
     ELSE /\ Spent(f) = RMax(f.peeled_entropy, RAdd(RSum(f.entropies), RInt(1)))
          /\ RLe(RSum(f.entropies),
                 RAdd(RDivInt(f.peeled_entropy, 4), RInt(Len(f.entropies))))
          /\ \A k \in 1..Len(f.entropies) : RLe(RInt(1), f.entropies[k])
          /\ RLe(RInt(1), f.entropy)
          /\ RLe(RInt(4), f.peeled_entropy) => RLe(Spent(f), f.peeled_entropy)

\* a degree-2 system sampled both solutions from a peeled entropy of 8 and
\* spent exactly that, with unequal per-solution entropies
C4_Witness ==
  \E i \in 1..Len(stack) : LET f == FrameAt(i) IN
     /\ Sampled(f) /\ f.fn = "solve_linear_2d"
     /\ Len(f.entropies) = 2
     /\ f.entropies[1] # f.entropies[2]
     /\ f.peeled_entropy = RInt(8)
     /\ Spent(f) = RInt(8)

HasCoeffs(f) == f.fn = "polynomial_roots" /\ f.pc \in {"sample", "return"}

Multiplicity(roots, r) == Cardinality({i \in 1..Len(roots) : roots[i] = r})

\* value at x of the polynomial with coefficients c, lowest degree first
RECURSIVE REval(_, _)
REval(c, x) == IF c = <<>> THEN RInt(0) ELSE RAdd(Head(c), RMul(x, REval(Tail(c), x)))

Derivative(c) == [i \in 1..(Len(c) - 1) |-> RMul(RInt(i), c[i + 1])]

RECURSIVE DerivativeN(_, _)
DerivativeN(c, n) == IF n = 0 THEN c ELSE DerivativeN(Derivative(c), n - 1)

\* C5: _polynomial_coeffs_with_roots returns len(roots) + 1 coefficients,
\* lowest degree first, with leading coefficient scale * lcm # 0, and the
\* polynomial vanishes at every given root to the order of its multiplicity
\* in the list: a nonzero multiple of the product of (x - root)
C5_CoeffsHaveRoots ==
  \A i \in 1..Len(stack) : LET f == FrameAt(i) IN HasCoeffs(f) =>
     LET roots == f.roots.roots
         c == f.coeffs.coeffs
     IN  /\ Len(roots) \in MinRoots..MaxRoots
         /\ Len(c) = Len(roots) + 1
         /\ f.coeffs.scale # RInt(0)
         /\ f.coeffs.lcm >= 1
         /\ c[Len(c)] = RMul(f.coeffs.scale, RInt(f.coeffs.lcm))
         /\ c[Len(c)] # RInt(0)
         /\ \A r \in Range(roots) :
              \A n \in 0..(Multiplicity(roots, r) - 1) :
                 REval(DerivativeN(c, n), r) = RInt(0)

\* the coefficients of roots [2, 2, -3] have been computed
C5_Witness ==
  \E i \in 1..Len(stack) : LET f == FrameAt(i) IN
     /\ HasCoeffs(f)
     /\ f.roots.roots = <<RInt(2), RInt(2), RInt(-3)>>
     /\ f.coeffs.scale = RInt(-2)

\* C6: sequence_next_term shows num_terms consecutive terms, degree + 2 <=
\* num_terms <= degree + 5, which are the sequence values at 1..num_terms in
\* order, and answers with the value at num_terms + 1
C6_NextTerm ==
  (IsReturn /\ returned.fn = "sequence_next_term") =>
     LET degree == returned.sequence.degree
         shown == returned.sequence_sample
     IN  /\ degree \in 1..3
         /\ Len(shown) >= degree + 2
         /\ Len(shown) <= degree + 5
         /\ Len(shown) >= 3
         /\ \A i \in 1..Len(shown) : shown[i] = Subs(returned.sequence.sympy, i)
         /\ returned.answer = <<Subs(returned.sequence.sympy, Len(shown) + 1)>>

\* a degree-1 sequence was shown with exactly 3 terms
C6_Witness ==
  /\ IsReturn /\ returned.fn = "sequence_next_term"
  /\ returned.sequence.degree = 1
  /\ Len(returned.sequence_sample) = 3
  /\ returned.sequence_sample[1] # returned.sequence_sample[2]

InRetryLoop ==
  /\ stack # <<>>
  /\ Top.fn \in IntegerModules
  /\ Top.pc = "construct"
  /\ Top.sample_args.num_modules > 1

\* C7: the retry of the system construction is bounded: whenever composition
\* is required and the system is being constructed, the loop is eventually
\* left, whatever the random constructor produces
C7_RetryLoopExits == InRetryLoop ~> ~InRetryLoop

AtLinearReturn == stack # <<>> /\ Top.fn \in IntegerModules /\ Top.pc = "return"

\* C8: _solve_linear_system reports variables[0] with solutions[0], the index
\* given as non_trivial_in, as a Problem or as an Entity's handle and value;
\* a pre-specified value is solutions[0], hence the answer, and then only
\* degree - 1 further solutions are sampled
C8_SolutionIndexZero ==
  [][AtLinearReturn =>
       /\ returned'.variable = Top.variables[1]
       /\ returned'.answer = Top.solutions[1]
       /\ Top.equations.non_trivial_in = 0
       /\ Top.solution_index = 0
       /\ Len(Top.solutions) = Top.degree
       /\ Top.degree \in 1..2
       /\ Top.value.given =>
            /\ returned'.answer = Top.value.v
            /\ Len(Top.entropies) = Top.degree - 1
       /\ ~Top.value.given => Len(Top.entropies) = Top.degree
       /\ Len(stack) > 1 =>
            /\ returned'.kind = "Entity"
            /\ context'.entities[Len(context'.entities)] =
                 [handle |-> Top.variables[1], value |-> Top.solutions[1]]
     ]_vars

\* a degree-2 Entity was returned for a pre-specified value, its other
\* solution being different
C8_Witness ==
  /\ IsReturn
  /\ returned.fn = "solve_linear_2d"
  /\ returned.kind = "Entity"
  /\ returned.value.given
  /\ returned.answer = returned.value.v
  /\ returned.answer = RInt(1)

\* C9: when the entropy given to _sample_roots exceeds 4, at least two roots
\* are sampled independently (num_distinct >= 2) for every num_roots in 2..5
C9_TwoDistinctRoots ==
  \A i \in 1..Len(stack) : LET f == FrameAt(i) IN
     (HasCoeffs(f) /\ RLt(RInt(HighEntropy), f.roots_entropy)) =>
        f.roots.num_distinct >= 2

\* C10: when main has finished, the file of each (regime, module) holds
\* exactly counts[regime] examples, all sampled from that module in that regime
C10_FilePerModule ==
  driver.pc = "done" =>
     \A path \in DOMAIN files :
        /\ files[path].exists
        /\ Len(files[path].content) = driver.counts[path[1]]
        /\ \A i \in 1..Len(files[path].content) :
             files[path].content[i] = Example(path[1], path[2])

====
